---- MODULE Spec2Model ----
(***************************************************************************)
(* A model of ez-mcp.ts: an MCP server that registers one resource         *)
(* (server-info), one tool (hello-someone) and one prompt                  *)
(* (greeting-prompt) on an McpServer and serves them over stdio.           *)
(*                                                                         *)
(* JavaScript strings are TLA+ strings (Len, SubSeq and \o act on them     *)
(* character by character).  The three handlers and main() are translated  *)
(* from ez-mcp.ts.  The lookup / validate / invoke pipeline lives in the   *)
(* SDK the file imports; it is modelled from the design document's         *)
(* description of dispatch and is marked as such where it is defined.      *)
(* The emoji that open some console lines are left out of the literals.    *)
(***************************************************************************)
EXTENDS Integers, Sequences, FiniteSets, TLC

VARIABLES
    pc,        \* position of the module's top-level code and of main()
    registry,  \* capability definitions held by the McpServer
    env,       \* process environment: a function from the set names to values
    stdout,    \* lines written with console.log
    stderr,    \* lines written with console.error
    exitCode,  \* -1 while the process runs, else the code given to Deno.exit
    rejection, \* the reason main()'s promise was rejected with, "" while there is none
    last,      \* the latest dispatch: request, environment, handler entered, response
    other      \* the latest dispatch of the run before this one, when runs are compared

vars == <<pc, registry, env, stdout, stderr, exitCode, rejection, last, other>>

(***************************************************************************)
(* Bounds of the model.                                                    *)
(***************************************************************************)
MaxLen == 2  \* longest name / person_name a request carries

(***************************************************************************)
(* Strings.                                                                *)
(***************************************************************************)
CharAt(s, i) == SubSeq(s, i, i)

\* ECMAScript WhiteSpace and LineTerminator code points that String.prototype.trim
\* strips (the ones a TLA+ string literal can spell).
WhiteSpaceChars == {" ", "\t", "\n", "\r", "\f"}

IsWhiteSpace(c) == c \in WhiteSpaceChars

RECURSIVE TrimStart(_)
TrimStart(s) ==
    IF Len(s) > 0 /\ IsWhiteSpace(CharAt(s, 1))
    THEN TrimStart(SubSeq(s, 2, Len(s)))
    ELSE s

RECURSIVE TrimEnd(_)
TrimEnd(s) ==
    IF Len(s) > 0 /\ IsWhiteSpace(CharAt(s, Len(s)))
    THEN TrimEnd(SubSeq(s, 1, Len(s) - 1))
    ELSE s

\* A plausible slip: only the leading whitespace is removed.
TrimLeadingOnly(s) == TrimStart(s)

\* String.prototype.trim
Trim(s) == TrimEnd(TrimStart(s))

(***************************************************************************)
(* Environment.                                                            *)
(***************************************************************************)
\* The console.log call of main() that prints the greeting prefix, counted
\* among its console.log calls.
BannerPrefixLine == 9

\* A plausible slip: the greeting prefix resolved once, when main() printed
\* the configuration, is used from then on instead of a fresh read.
EnvGetOrResolvedAtStartup(e, key, default) ==
    IF key = "GREETING_PREFIX" /\ Len(stdout) >= BannerPrefixLine
    THEN SubSeq(stdout[BannerPrefixLine], Len("   * Greeting prefix: ") + 1,
                Len(stdout[BannerPrefixLine]))
    ELSE IF key \in DOMAIN e THEN e[key] ELSE default

\* Deno.env.get(key) ?? default : the default only when the variable is unset
\* (an empty value is a value).
EnvGetOr(e, key, default) == IF key \in DOMAIN e THEN e[key] ELSE default

(***************************************************************************)
(* URL.href, for the URL object the resource handler is given.             *)
(***************************************************************************)
UpperLetters == "ABCDEFGHIJKLMNOPQRSTUVWXYZ"
LowerLetters == "abcdefghijklmnopqrstuvwxyz"

ToLowerChar(c) ==
    IF \E i \in 1..Len(UpperLetters) : CharAt(UpperLetters, i) = c
    THEN CharAt(LowerLetters, CHOOSE i \in 1..Len(UpperLetters) : CharAt(UpperLetters, i) = c)
    ELSE c

RECURSIVE ToLowerCase(_)
ToLowerCase(s) ==
    IF s = "" THEN "" ELSE ToLowerChar(CharAt(s, 1)) \o ToLowerCase(SubSeq(s, 2, Len(s)))

\* Index of the first ":" of u, 0 when there is none.
SchemeEnd(u) ==
    IF \E i \in 1..Len(u) : CharAt(u, i) = ":"
    THEN CHOOSE i \in 1..Len(u) :
            CharAt(u, i) = ":" /\ \A j \in 1..(i - 1) : CharAt(u, j) # ":"
    ELSE 0

\* uri.href : the serialised URL; the scheme is lower-cased, the rest of a
\* non-special URL such as server://info is kept as written.
Href(u) ==
    ToLowerCase(SubSeq(u, 1, SchemeEnd(u))) \o SubSeq(u, SchemeEnd(u) + 1, Len(u))

(***************************************************************************)
(* JSON.stringify(value, null, 2) for an object whose members are strings  *)
(* or arrays of strings.  An object is a sequence of <<key, value>> pairs  *)
(* in insertion order; a value is JsonString(s) or JsonArray(seq).         *)
(***************************************************************************)
JsonString(s) == [t |-> "string", v |-> s]
JsonArray(a) == [t |-> "array", v |-> a]

JsonEscapeChar(c) ==
    CASE c = "\"" -> "\\\""
      [] c = "\\" -> "\\\\"
      [] c = "\n" -> "\\n"
      [] c = "\r" -> "\\r"
      [] c = "\t" -> "\\t"
      [] c = "\f" -> "\\f"
      [] OTHER -> c

RECURSIVE JsonEscape(_)
JsonEscape(s) ==
    IF s = "" THEN "" ELSE JsonEscapeChar(CharAt(s, 1)) \o JsonEscape(SubSeq(s, 2, Len(s)))

\* A plausible slip: the text is put between quotes without escaping.
JsonQuoteRaw(s) == "\"" \o s \o "\""

JsonQuote(s) == "\"" \o JsonEscape(s) \o "\""

RECURSIVE JoinLines(_, _)
JoinLines(parts, sep) ==
    IF parts = <<>> THEN ""
    ELSE IF Len(parts) = 1 THEN parts[1]
    ELSE parts[1] \o sep \o JoinLines(Tail(parts), sep)

JsonValue(val) ==
    IF val.t = "string" THEN JsonQuote(val.v)
    ELSE IF val.v = <<>> THEN "[]"
    ELSE "[\n"
         \o JoinLines([i \in 1..Len(val.v) |-> "    " \o JsonQuote(val.v[i])], ",\n")
         \o "\n  ]"

JsonStringify(obj) ==
    IF obj = <<>> THEN "{}"
    ELSE "{\n"
         \o JoinLines([i \in 1..Len(obj) |->
                          "  " \o JsonQuote(obj[i][1]) \o ": " \o JsonValue(obj[i][2])],
                      ",\n")
         \o "\n}"

(***************************************************************************)
(* The three handlers.  e is the environment at the time of the call.      *)
(***************************************************************************)
\* A plausible slip: the information also reports the ENVIRONMENT setting.
ServerInfoHandlerWithEnvironment(uri, e) ==
    LET greetingPrefix == EnvGetOr(e, "GREETING_PREFIX", "Hello")
        info == <<
            <<"name", JsonString("EZ-MCP Demo Server")>>,
            <<"version", JsonString("1.0.0")>>,
            <<"description",
              JsonString("A simple MCP server demonstrating basic functionality")>>,
            <<"features",
              JsonArray(<<"hello-someone tool", "greeting-prompt prompt",
                          "server-info resource">>)>>,
            <<"author", JsonString("EZ-MCP")>>,
            <<"status", JsonString("running")>>,
            <<"environment", JsonString(EnvGetOr(e, "ENVIRONMENT", "development"))>>,
            <<"greeting_prefix", JsonString(greetingPrefix)>>,
            <<"sample_greeting", JsonString(greetingPrefix \o ", World!")>> >>
    IN  [contents |-> << [uri |-> Href(uri), text |-> JsonStringify(info)] >>]

\* server.resource("server-info", "server://info", async (uri) => ...)
ServerInfoHandler(uri, e) ==
    LET greetingPrefix == EnvGetOr(e, "GREETING_PREFIX", "Hello")
        info == <<
            <<"name", JsonString("EZ-MCP Demo Server")>>,
            <<"version", JsonString("1.0.0")>>,
            <<"description",
              JsonString("A simple MCP server demonstrating basic functionality")>>,
            <<"features",
              JsonArray(<<"hello-someone tool", "greeting-prompt prompt",
                          "server-info resource">>)>>,
            <<"author", JsonString("EZ-MCP")>>,
            <<"status", JsonString("running")>>,
            <<"greeting_prefix", JsonString(greetingPrefix)>>,
            <<"sample_greeting", JsonString(greetingPrefix \o ", World!")>> >>
    IN  [contents |-> << [uri |-> Href(uri), text |-> JsonStringify(info)] >>]

\* A plausible slip: the prefix is read before the emptiness test and ends up
\* in the error text.
HelloSomeoneHandlerPrefixedError(args, e) ==
    LET greetingPrefix == EnvGetOr(e, "GREETING_PREFIX", "Hello")
    IN  IF Trim(args.name) = ""
        THEN [content |-> << [type |-> "text",
                              text |-> greetingPrefix \o ": Please provide a name"] >>,
              isError |-> TRUE]
        ELSE [content |-> << [type |-> "text",
                              text |-> greetingPrefix \o ", " \o Trim(args.name)
                                       \o "! Nice to meet you!"] >>]

\* server.tool("hello-someone", { name: z.string() }, async ({ name }) => ...)
\* The success result carries no isError member.
HelloSomeoneHandler(args, e) ==
    IF Trim(args.name) = ""
    THEN [content |-> << [type |-> "text", text |-> "Error: Please provide a name"] >>,
          isError |-> TRUE]
    ELSE LET trimmedName == Trim(args.name)
             greetingPrefix == EnvGetOr(e, "GREETING_PREFIX", "Hello")
         IN  [content |-> << [type |-> "text",
                              text |-> greetingPrefix \o ", " \o trimmedName
                                       \o "! Nice to meet you!"] >>]

\* The template literal of the prompt's message text.
GreetingTemplate(person_name, greetingPrefix) ==
    "Please create a warm and friendly greeting for " \o person_name
    \o " that starts with \"" \o greetingPrefix \o "\".\n"
    \o "\n"
    \o "The greeting should be:\n"
    \o "1. Begin with the word \"" \o greetingPrefix \o "\"\n"
    \o "2. Be warm and welcoming\n"
    \o "3. Professional yet friendly  \n"
    \o "4. Appropriate for a first meeting\n"
    \o "5. Memorable and personal\n"
    \o "\n"
    \o "Example format: \"" \o greetingPrefix
    \o ", [name]! [additional friendly message]\"\n"
    \o "\n"
    \o "Make it genuine and engaging."

\* A plausible slip: the name is trimmed, as the tool does, before it is put
\* in the template.
GreetingPromptHandlerTrimmed(args, e) ==
    LET greetingPrefix == EnvGetOr(e, "GREETING_PREFIX", "Hello")
    IN  [messages |-> << [role |-> "user",
                          content |-> [type |-> "text",
                                       text |-> GreetingTemplate(Trim(args.person_name),
                                                                 greetingPrefix)]] >>]

\* server.prompt("greeting-prompt", { person_name: z.string() }, ({ person_name }) => ...)
GreetingPromptHandler(args, e) ==
    LET greetingPrefix == EnvGetOr(e, "GREETING_PREFIX", "Hello")
    IN  [messages |-> << [role |-> "user",
                          content |-> [type |-> "text",
                                       text |-> GreetingTemplate(args.person_name,
                                                                 greetingPrefix)]] >>]

(***************************************************************************)
(* Capability definitions, as the three registration calls give them.      *)
(* A parameter schema maps each parameter to its type and, when it has     *)
(* one, the default substituted for a missing value.                       *)
(***************************************************************************)
ZString == [type |-> "string", hasDefault |-> FALSE]

\* A plausible slip: z.string().default("World"), which lets a request
\* without the parameter through to the handler.
HelloSomeoneSchemaWithDefault ==
    [name |-> [type |-> "string", hasDefault |-> TRUE, default |-> "World"]]

\* { name: z.string().describe(...) }
HelloSomeoneSchema == [name |-> ZString]

\* { person_name: z.string().describe(...) }
GreetingPromptSchema == [person_name |-> ZString]

ServerInfoDef ==
    [kind |-> "resource", name |-> "server-info", uri |-> "server://info",
     schema |-> <<>>, handler |-> "server-info"]

\* A plausible slip: the tool is registered under another name.
HelloSomeoneDefMisnamed ==
    [kind |-> "tool", name |-> "goodbye",
     schema |-> HelloSomeoneSchema, handler |-> "hello-someone"]

HelloSomeoneDef ==
    [kind |-> "tool", name |-> "hello-someone",
     schema |-> HelloSomeoneSchema, handler |-> "hello-someone"]

\* A plausible slip: the prompt's registration is pasted from the tool's and
\* keeps its kind and name.
GreetingPromptDefPastedFromTool ==
    [kind |-> "tool", name |-> "hello-someone",
     schema |-> GreetingPromptSchema, handler |-> "greeting-prompt"]

GreetingPromptDef ==
    [kind |-> "prompt", name |-> "greeting-prompt",
     schema |-> GreetingPromptSchema, handler |-> "greeting-prompt"]

(***************************************************************************)
(* Requests.  An argument is a JSON value: a string, a number or null.     *)
(***************************************************************************)
JsStr(s) == [t |-> "string", v |-> s]
JsNum(n) == [t |-> "number", v |-> n]
JsNull == [t |-> "null"]

NameChars == {" ", "G"}

RECURSIVE StringsOfLen(_)
StringsOfLen(n) ==
    IF n = 0 THEN {""}
    ELSE {s \o c : s \in StringsOfLen(n - 1), c \in NameChars}

\* Names with the other whitespace characters and with inner blanks.
ExtraNames == {"\tAda\n", "\r\n\f", "  Grace  ", " Grace Hopper "}

Names == UNION {StringsOfLen(n) : n \in 0..MaxLen} \cup ExtraNames

ArgValues == {JsStr(s) : s \in Names} \cup {JsNum(42), JsNull}

ToolRequests ==
    {[kind |-> "tool", name |-> "hello-someone", arguments |-> a] :
        a \in {<<>>} \cup {[name |-> v] : v \in ArgValues}}

PromptRequests ==
    {[kind |-> "prompt", name |-> "greeting-prompt", arguments |-> a] :
        a \in {<<>>} \cup {[person_name |-> v] : v \in ArgValues}}

ResourceRequests == {[kind |-> "resource", uri |-> "server://info"]}

\* Requests naming nothing that is registered: an unknown name, a registered
\* name under another kind, an unknown URI.
UnregisteredRequests ==
    { [kind |-> "tool", name |-> "goodbye", arguments |-> [name |-> JsStr("G")]],
      [kind |-> "tool", name |-> "greeting-prompt", arguments |-> [person_name |-> JsStr("G")]],
      [kind |-> "prompt", name |-> "hello-someone", arguments |-> [name |-> JsStr("G")]],
      [kind |-> "resource", uri |-> "server://other"] }

Requests == ToolRequests \cup PromptRequests \cup ResourceRequests \cup UnregisteredRequests

(***************************************************************************)
(* Dispatch: look the capability up, validate the arguments against its    *)
(* schema, invoke its handler.  These steps run inside the imported SDK;   *)
(* Matches, Lookup, Valid, Bind and DispatchOutcome follow the design      *)
(* document's description of dispatch, not code of ez-mcp.ts.              *)
(***************************************************************************)
Matches(d, req) ==
    /\ d.kind = req.kind
    /\ IF req.kind = "resource" THEN d.uri = req.uri ELSE d.name = req.name

Lookup(reg, req) == {d \in reg : Matches(d, req)}

\* Type check and required-field check of the raw arguments.
Valid(schema, args) ==
    \A p \in DOMAIN schema :
        IF p \in DOMAIN args THEN args[p].t = schema[p].type ELSE schema[p].hasDefault

\* The bound arguments: the validated values, defaults substituted.
Bind(schema, args) ==
    [p \in DOMAIN schema |-> IF p \in DOMAIN args THEN args[p].v ELSE schema[p].default]

Failure(code) == [tag |-> "error", error |-> code]
Success(result) == [tag |-> "result", result |-> result]

\* The callback each registration passes.
Invoke(d, req, e) ==
    CASE d.handler = "server-info" -> ServerInfoHandler(req.uri, e)
      [] d.handler = "hello-someone" -> HelloSomeoneHandler(Bind(d.schema, req.arguments), e)
      [] d.handler = "greeting-prompt" -> GreetingPromptHandler(Bind(d.schema, req.arguments), e)

DispatchOutcome(reg, req, e) ==
    IF Lookup(reg, req) = {}
    THEN [request |-> req, env |-> e, handler |-> "none",
          response |-> Failure("NotFound")]
    ELSE LET d == CHOOSE x \in Lookup(reg, req) : TRUE
         IN  IF ~Valid(d.schema, req.arguments)
             THEN [request |-> req, env |-> e, handler |-> "none",
                   response |-> Failure("InvalidParameters")]
             ELSE [request |-> req, env |-> e, handler |-> d.handler,
                   response |-> Success(Invoke(d, req, e))]

(***************************************************************************)
(* The process: module load (the three registrations), main(), serving.    *)
(***************************************************************************)
EnvNames == {"GREETING_PREFIX", "ENVIRONMENT"}
PrefixValues == {"", "Yo", "a\"\\\n"}
EnvironmentValues == {"production"}

Envs ==
    {[k \in ks |-> IF k = "GREETING_PREFIX" THEN p ELSE m] :
        ks \in SUBSET EnvNames, p \in PrefixValues, m \in EnvironmentValues}

ConnectErrors == {"Error: StdioServerTransport already started"}

NoDispatch ==
    [request |-> [kind |-> "none"], env |-> <<>>, handler |-> "none",
     response |-> [tag |-> "none"]]

Init ==
    /\ pc = "register_resource"
    /\ registry = {}
    /\ env \in Envs
    /\ stdout = <<>>
    /\ stderr = <<>>
    /\ exitCode = -1
    /\ rejection = ""
    /\ last = NoDispatch
    /\ other = NoDispatch

\* register(definition), as the design document gives it (the SDK's code):
\* a definition whose kind and name are already held is refused with
\* DuplicateName and the registry stays as it was.
Register(reg, def) ==
    IF \E d \in reg : d.kind = def.kind /\ d.name = def.name
    THEN [ok |-> FALSE, error |-> "DuplicateName", registry |-> reg]
    ELSE [ok |-> TRUE, error |-> "", registry |-> reg \cup {def}]

\* One registration call of the module's top level: on success the next
\* statement follows; a refusal is an exception thrown at module load, which
\* nothing catches, so the start is aborted.
RegisterStep(here, def, next) ==
    /\ pc = here
    /\ registry' = Register(registry, def).registry
    /\ pc' = IF Register(registry, def).ok THEN next ELSE "aborted"
    /\ UNCHANGED <<env, stdout, stderr, exitCode, rejection, last, other>>

\* server.resource("server-info", "server://info", ...)
RegisterResource == RegisterStep("register_resource", ServerInfoDef, "register_tool")

\* server.tool("hello-someone", ...)
RegisterTool == RegisterStep("register_tool", HelloSomeoneDef, "register_prompt")

\* server.prompt("greeting-prompt", ...)
RegisterPrompt == RegisterStep("register_prompt", GreetingPromptDef, "main")

\* The console.log lines of main().
Banner(e) ==
    << "Starting EZ-MCP Demo Server...",
       "Simple MCP server with:",
       "   * 1 Resource: server-info",
       "   * 1 Tool: hello-someone",
       "   * 1 Prompt: greeting-prompt",
       "",
       "Configuration:",
       "   * Environment: " \o EnvGetOr(e, "ENVIRONMENT", "development"),
       "   * Greeting prefix: " \o EnvGetOr(e, "GREETING_PREFIX", "Hello"),
       "",
       "Server running on stdio transport...",
       "   Use 'npx @modelcontextprotocol/inspector deno run --allow-all ez-mcp.ts' to open the MCP Inspector",
       "   Or configure this server in your MCP Client",
       "" >>

\* main() up to the connect call.
MainBanner ==
    /\ pc = "main"
    /\ stdout' = stdout \o Banner(env)
    /\ pc' = "connect"
    /\ UNCHANGED <<registry, env, stderr, exitCode, rejection, last, other>>

\* await server.connect(transport) resolves.
ConnectOk ==
    /\ pc = "connect"
    /\ pc' = "serving"
    /\ UNCHANGED <<registry, env, stdout, stderr, exitCode, rejection, last, other>>

\* await server.connect(transport) rejects: main()'s promise rejects with the
\* error, which the catch callback receives.
ConnectFail ==
    /\ pc = "connect"
    /\ \E err \in ConnectErrors : rejection' = err
    /\ pc' = "catch_log"
    /\ UNCHANGED <<registry, env, stdout, stderr, exitCode, last, other>>

\* A plausible slip: the catch callback exits without logging.
CatchLogSilent ==
    /\ pc = "catch_log"
    /\ pc' = "catch_exit"
    /\ UNCHANGED <<registry, env, stdout, stderr, exitCode, rejection, last, other>>

\* console.error("Server failed to start:", error)
CatchLog ==
    /\ pc = "catch_log"
    /\ stderr' = Append(stderr, "Server failed to start: " \o rejection)
    /\ pc' = "catch_exit"
    /\ UNCHANGED <<registry, env, stdout, exitCode, rejection, last, other>>

\* Deno.exit(1)
CatchExit ==
    /\ pc = "catch_exit"
    /\ exitCode' = 1
    /\ pc' = "exited"
    /\ UNCHANGED <<registry, env, stdout, stderr, rejection, last, other>>

\* GREETING_PREFIX is set to another value, or deleted, while the server runs
\* (Deno.env.set / Deno.env.delete by code sharing the process); the file
\* itself never writes the environment.  ENVIRONMENT is read at startup only
\* and keeps the value the process started with.
EnvChange ==
    /\ pc = "serving"
    /\ \E e \in Envs :
        /\ e # env
        /\ ("ENVIRONMENT" \in DOMAIN e) = ("ENVIRONMENT" \in DOMAIN env)
        /\ "ENVIRONMENT" \in DOMAIN e => e["ENVIRONMENT"] = env["ENVIRONMENT"]
        /\ env' = e
    /\ UNCHANGED <<pc, registry, stdout, stderr, exitCode, rejection, last, other>>

\* One request of reqs read from the transport and dispatched; the response
\* is the outcome's response member.
DispatchOf(reqs) ==
    /\ pc = "serving"
    /\ \E req \in reqs : last' = DispatchOutcome(registry, req, env)
    /\ UNCHANGED <<pc, registry, env, stdout, stderr, exitCode, rejection, other>>

Dispatch == DispatchOf(Requests)

Next ==
    \/ RegisterResource
    \/ RegisterTool
    \/ RegisterPrompt
    \/ MainBanner
    \/ ConnectOk
    \/ ConnectFail
    \/ CatchLog
    \/ CatchExit
    \/ EnvChange
    \/ Dispatch

Spec == Init /\ [][Next]_vars

(***************************************************************************)
(* Properties.  What a property expects is spelled out here on its own     *)
(* terms (whitespace, trimming, the prefix in force, reading the JSON      *)
(* text back) and compared with what the handlers produced.                *)
(***************************************************************************)
Blank(c) == c \in {" ", "\t", "\n", "\r", "\f"}

HasInk(s) == \E i \in 1..Len(s) : ~Blank(CharAt(s, i))

FirstInk(s) == CHOOSE i \in 1..Len(s) :
                   ~Blank(CharAt(s, i)) /\ \A j \in 1..(i - 1) : Blank(CharAt(s, j))

LastInk(s) == CHOOSE i \in 1..Len(s) :
                  ~Blank(CharAt(s, i)) /\ \A j \in (i + 1)..Len(s) : Blank(CharAt(s, j))

\* s without its leading and trailing whitespace, for s with some ink.
Trimmed(s) == SubSeq(s, FirstInk(s), LastInk(s))

\* The greeting prefix in force under environment e.
PrefixIn(e) == IF "GREETING_PREFIX" \in DOMAIN e THEN e["GREETING_PREFIX"] ELSE "Hello"

IsError(result) == "isError" \in DOMAIN result /\ result.isError = TRUE

\* The latest request called capability (kind, name) with a string for param.
CalledWithString(kind, name, param) ==
    /\ last.request.kind = kind
    /\ last.request.name = name
    /\ param \in DOMAIN last.request.arguments
    /\ last.request.arguments[param].t = "string"

\* C1: hello-someone with a name holding at least one non-whitespace character
\* returns exactly one text item "<prefix>, <trimmed name>! Nice to meet you!",
\* the prefix being the one in force at the call, and no error flag.
C1_HelloGreetsTrimmedName ==
    (CalledWithString("tool", "hello-someone", "name")
        /\ HasInk(last.request.arguments.name.v))
    => /\ last.response.tag = "result"
       /\ ~IsError(last.response.result)
       /\ last.response.result.content =
             << [type |-> "text",
                 text |-> PrefixIn(last.env) \o ", "
                          \o Trimmed(last.request.arguments.name.v)
                          \o "! Nice to meet you!"] >>

C1_Witness ==
    /\ CalledWithString("tool", "hello-someone", "name")
    /\ last.request.arguments.name.v = "  Grace  "
    /\ "GREETING_PREFIX" \notin DOMAIN last.env
    /\ last.response.tag = "result"
    /\ last.response.result.content[1].text = "Hello, Grace! Nice to meet you!"

\* C2: hello-someone with a name of whitespace only (the empty string
\* included) returns a result, not a failure, flagged isError, whose only
\* item is the text "Error: Please provide a name", whatever the prefix.
C2_HelloRejectsBlankName ==
    (CalledWithString("tool", "hello-someone", "name")
        /\ ~HasInk(last.request.arguments.name.v))
    => /\ last.response.tag = "result"
       /\ IsError(last.response.result)
       /\ last.response.result.content =
             << [type |-> "text", text |-> "Error: Please provide a name"] >>

C2_Witness ==
    /\ CalledWithString("tool", "hello-someone", "name")
    /\ last.request.arguments.name.v = "\r\n\f"
    /\ PrefixIn(last.env) = "Yo"
    /\ last.response.tag = "result"
    /\ IsError(last.response.result)

(***************************************************************************)
(* Reading a JSON text back: its lines, the member a line holds, and the   *)
(* string a string literal denotes.                                        *)
(***************************************************************************)
StartsWith(s, pre) == Len(s) >= Len(pre) /\ SubSeq(s, 1, Len(pre)) = pre

Contains(s, sub) ==
    \E i \in 1..(Len(s) - Len(sub) + 1) : SubSeq(s, i, i + Len(sub) - 1) = sub

\* The lines of t: the stretches between its line feeds.
TextLines(t) ==
    LET feeds == {i \in 1..Len(t) : CharAt(t, i) = "\n"}
        n == Cardinality(feeds)
        edge(k) == IF k = 0 THEN 0
                   ELSE IF k = n + 1 THEN Len(t) + 1
                   ELSE CHOOSE i \in feeds : Cardinality({j \in feeds : j < i}) = k - 1
    IN  [k \in 1..(n + 1) |-> SubSeq(t, edge(k - 1) + 1, edge(k) - 1)]

NotJson == [ok |-> FALSE, v |-> ""]

\* The characters between the quotes of a string literal, decoded; not ok
\* on a bare quote, a bare control character or an unknown escape.
RECURSIVE JsonUnescape(_)
JsonUnescape(body) ==
    IF body = "" THEN [ok |-> TRUE, v |-> ""]
    ELSE LET c == CharAt(body, 1)
         IN  IF c = "\"" \/ c \in {"\n", "\r", "\t", "\f"} THEN NotJson
             ELSE IF c # "\\"
             THEN LET rest == JsonUnescape(SubSeq(body, 2, Len(body)))
                  IN  [ok |-> rest.ok, v |-> c \o rest.v]
             ELSE IF Len(body) < 2 THEN NotJson
             ELSE LET x == CharAt(body, 2)
                      rest == JsonUnescape(SubSeq(body, 3, Len(body)))
                      d == CASE x = "\"" -> "\""
                             [] x = "\\" -> "\\"
                             [] x = "/" -> "/"
                             [] x = "n" -> "\n"
                             [] x = "r" -> "\r"
                             [] x = "t" -> "\t"
                             [] x = "f" -> "\f"
                             [] OTHER -> ""
                  IN  IF d = "" THEN NotJson ELSE [ok |-> rest.ok, v |-> d \o rest.v]

JsonStringLiteral(lit) ==
    IF Len(lit) >= 2 /\ CharAt(lit, 1) = "\"" /\ CharAt(lit, Len(lit)) = "\""
    THEN JsonUnescape(SubSeq(lit, 2, Len(lit) - 1))
    ELSE NotJson

DropComma(s) == IF Len(s) > 0 /\ CharAt(s, Len(s)) = "," THEN SubSeq(s, 1, Len(s) - 1) ELSE s

\* The lines of an indented object that hold member key.
MemberLines(lines, key) ==
    {i \in 1..Len(lines) : StartsWith(lines[i], "  \"" \o key \o "\": ")}

\* The string value of member key, ok only if the member occurs once and its
\* value is a well-formed string literal.
StringMember(lines, key) ==
    IF Cardinality(MemberLines(lines, key)) # 1 THEN NotJson
    ELSE LET i == CHOOSE k \in MemberLines(lines, key) : TRUE
             head == "  \"" \o key \o "\": "
         IN  JsonStringLiteral(DropComma(SubSeq(lines[i], Len(head) + 1, Len(lines[i]))))

\* The number of elements of the array member key: the element lines between
\* its opening line and the line closing it; -1 if it is not laid out so.
ArrayMemberSize(lines, key) ==
    IF Cardinality(MemberLines(lines, key)) # 1 THEN -1
    ELSE LET i == CHOOSE k \in MemberLines(lines, key) : TRUE
             closes == {k \in (i + 1)..Len(lines) : DropComma(lines[k]) = "  ]"}
         IN  IF lines[i] # "  \"" \o key \o "\": [" \/ closes = {} THEN -1
             ELSE LET c == CHOOSE k \in closes : \A m \in closes : k <= m
                  IN  IF \A k \in (i + 1)..(c - 1) :
                             /\ StartsWith(lines[k], "    ")
                             /\ JsonStringLiteral(
                                    DropComma(SubSeq(lines[k], 5, Len(lines[k])))).ok
                      THEN c - i - 1
                      ELSE -1

ReadsServerInfo == last.request.kind = "resource" /\ last.request.uri = "server://info"

\* C4: reading server://info returns one entry, with the requested URI, whose
\* text is an object with status "running", three features, greeting_prefix
\* the prefix in force at the call and sample_greeting "<that prefix>, World!".
C4_ServerInfoReportsPrefix ==
    ReadsServerInfo
    => /\ last.response.tag = "result"
       /\ Len(last.response.result.contents) = 1
       /\ last.response.result.contents[1].uri = last.request.uri
       /\ LET lines == TextLines(last.response.result.contents[1].text)
          IN  /\ lines[1] = "{"
              /\ lines[Len(lines)] = "}"
              /\ StringMember(lines, "status") = [ok |-> TRUE, v |-> "running"]
              /\ ArrayMemberSize(lines, "features") = 3
              /\ StringMember(lines, "greeting_prefix")
                     = [ok |-> TRUE, v |-> PrefixIn(last.env)]
              /\ StringMember(lines, "sample_greeting")
                     = [ok |-> TRUE, v |-> PrefixIn(last.env) \o ", World!"]

C4_Witness ==
    /\ ReadsServerInfo
    /\ PrefixIn(last.env) = "a\"\\\n"
    /\ last.response.tag = "result"
    /\ Contains(last.response.result.contents[1].text,
                "\"sample_greeting\": \"a\\\"\\\\\\n, World!\"")

\* C5: greeting-prompt returns exactly one message, of role "user", whose text
\* contains "for <person_name>" and whose example-format line starts with the
\* prefix in force at the call.
C5_PromptEmbedsNameAndPrefix ==
    CalledWithString("prompt", "greeting-prompt", "person_name")
    => /\ last.response.tag = "result"
       /\ Len(last.response.result.messages) = 1
       /\ last.response.result.messages[1].role = "user"
       /\ LET text == last.response.result.messages[1].content.text
          IN  /\ Contains(text, "for " \o last.request.arguments.person_name.v)
              /\ Contains(text, "\nExample format: \"" \o PrefixIn(last.env) \o ", [name]!")

C5_Witness ==
    /\ CalledWithString("prompt", "greeting-prompt", "person_name")
    /\ last.request.arguments.person_name.v = "\tAda\n"
    /\ PrefixIn(last.env) = "Yo"
    /\ last.response.tag = "result"
    /\ Contains(last.response.result.messages[1].content.text, "for \tAda\n that starts with \"Yo\"")
    /\ Contains(last.response.result.messages[1].content.text, "\nExample format: \"Yo, [name]!")

\* What an outcome shows of the prefix p: the greeting opens with it, the
\* server information reports it, the prompt quotes it in all three places.
UsesPrefix(o, p) ==
    CASE o.handler = "hello-someone" /\ ~IsError(o.response.result) ->
            o.response.result.content[1].text
                = p \o ", " \o Trimmed(o.request.arguments.name.v) \o "! Nice to meet you!"
      [] o.handler = "server-info" ->
            LET lines == TextLines(o.response.result.contents[1].text)
            IN  /\ StringMember(lines, "greeting_prefix") = [ok |-> TRUE, v |-> p]
                /\ StringMember(lines, "sample_greeting") = [ok |-> TRUE, v |-> p \o ", World!"]
      [] o.handler = "greeting-prompt" ->
            LET text == o.response.result.messages[1].content.text
            IN  /\ Contains(text, " that starts with \"" \o p \o "\".\n")
                /\ Contains(text, "\n1. Begin with the word \"" \o p \o "\"\n")
                /\ Contains(text, "\nExample format: \"" \o p \o ", [name]!")
      [] OTHER -> TRUE

\* C3: every dispatch uses the GREETING_PREFIX the environment holds when
\* that dispatch runs, whatever it held at startup or at earlier dispatches.
C3_PrefixReadAtEachCall ==
    [][last' # last => UsesPrefix(last', PrefixIn(env))]_vars

\* A dispatch run under a prefix other than the one printed at startup,
\* whose greeting opens with the later prefix.
C3_Witness ==
    /\ last.handler = "hello-someone"
    /\ last.env = env
    /\ ~IsError(last.response.result)
    /\ stdout[BannerPrefixLine] # "   * Greeting prefix: " \o PrefixIn(env)
    /\ StartsWith(last.response.result.content[1].text, PrefixIn(env) \o ", ")

\* The capabilities the file registers, by kind and by the name (for a
\* resource, the URI) a request addresses them with.
NamesRegistered(req) ==
    \/ req.kind = "resource" /\ req.uri = "server://info"
    \/ req.kind = "tool" /\ req.name = "hello-someone"
    \/ req.kind = "prompt" /\ req.name = "greeting-prompt"

\* C6: a request naming none of the three registered capabilities fails with
\* NotFound: no handler runs and the response is a failure, not a result.
C6_UnregisteredIsNotFound ==
    (last # NoDispatch /\ ~NamesRegistered(last.request))
    => /\ last.handler = "none"
       /\ last.response = [tag |-> "error", error |-> "NotFound"]

C6_Witness ==
    /\ last.request.kind = "prompt"
    /\ last.request.name = "hello-someone"
    /\ last.response = [tag |-> "error", error |-> "NotFound"]

\* The latest request called capability (kind, name) without a string for param.
CalledWithoutString(kind, name, param) ==
    /\ last.request.kind = kind
    /\ last.request.name = name
    /\ (param \notin DOMAIN last.request.arguments
        \/ last.request.arguments[param].t # "string")

\* C7: hello-someone or greeting-prompt called with the required string
\* parameter missing or not a string fails with InvalidParameters, and the
\* handler is not entered.
C7_BadParameterIsInvalidParameters ==
    (CalledWithoutString("tool", "hello-someone", "name")
        \/ CalledWithoutString("prompt", "greeting-prompt", "person_name"))
    => /\ last.handler = "none"
       /\ last.response = [tag |-> "error", error |-> "InvalidParameters"]

C7_Witness ==
    /\ CalledWithoutString("tool", "hello-someone", "name")
    /\ last.request.arguments = <<>>
    /\ last.response = [tag |-> "error", error |-> "InvalidParameters"]

(***************************************************************************)
(* Startup failure.  The catch callback's two statements run one after the *)
(* other once main()'s promise is rejected.                                *)
(***************************************************************************)
FairSpec == Spec /\ WF_vars(CatchLog) /\ WF_vars(CatchExit)

\* C10: when the connect in main() rejects, the reason is written to stderr,
\* then the process exits with code 1: an exit never happens without the log
\* before it, the exit does come, and no request is served in that run.
C10_StartupFailureLogsThenExits ==
    /\ [](rejection # "" => last = NoDispatch)
    /\ [](exitCode # -1 =>
            /\ exitCode = 1
            /\ rejection # ""
            /\ stderr = <<"Server failed to start: " \o rejection>>)
    /\ (rejection # "" ~> exitCode = 1)

C10_Witness ==
    /\ pc = "exited"
    /\ exitCode = 1
    /\ stderr = <<"Server failed to start: Error: StdioServerTransport already started">>
    /\ last = NoDispatch

(***************************************************************************)
(* The registry.                                                           *)
(***************************************************************************)
Registering == pc \in {"register_resource", "register_tool", "register_prompt"}

RegistryUnique ==
    \A d1, d2 \in registry : (d1.kind = d2.kind /\ d1.name = d2.name) => d1 = d2

HoldsTheThree ==
    /\ Cardinality(registry) = 3
    /\ {<<d.kind, d.name>> : d \in registry}
          = { <<"resource", "server-info">>, <<"tool", "hello-someone">>,
              <<"prompt", "greeting-prompt">> }

\* Registering again a kind and name the registry holds is refused with
\* DuplicateName and would leave the registry as it is.
RefusesDuplicates ==
    \A d \in registry :
        Register(registry, d) = [ok |-> FALSE, error |-> "DuplicateName", registry |-> registry]

\* C11: the registry never holds two definitions of one kind and name, a
\* register call for a kind and name it holds is refused with DuplicateName
\* and changes nothing, after the three startup registrations it holds
\* exactly the resource server-info, the tool hello-someone and the prompt
\* greeting-prompt, and nothing after them (no dispatch in particular) adds,
\* removes or changes a definition.
C11_RegistryFixedAfterStartup ==
    /\ [](RegistryUnique /\ RefusesDuplicates)
    /\ [](~Registering => HoldsTheThree)
    /\ [][~Registering => registry' = registry]_vars

C11_Witness ==
    /\ pc = "serving"
    /\ last.handler = "greeting-prompt"
    /\ HoldsTheThree
    /\ ~Register(registry, HelloSomeoneDef).ok

(***************************************************************************)
(* Two runs.  The process is started, serves, is stopped and started       *)
(* again under an environment of its own; what the earlier run answered    *)
(* last is kept in other and compared with what the later run answers.     *)
(***************************************************************************)
\* One request for each capability and each way a dispatch can end.
PairRequests ==
    { [kind |-> "tool", name |-> "hello-someone", arguments |-> [name |-> JsStr("  Grace  ")]],
      [kind |-> "tool", name |-> "hello-someone", arguments |-> [name |-> JsStr("\r\n\f")]],
      [kind |-> "tool", name |-> "hello-someone", arguments |-> <<>>],
      [kind |-> "prompt", name |-> "greeting-prompt",
       arguments |-> [person_name |-> JsStr("\tAda\n")]],
      [kind |-> "resource", uri |-> "server://info"],
      [kind |-> "tool", name |-> "goodbye", arguments |-> [name |-> JsStr("G")]] }

PairDispatch == DispatchOf(PairRequests)

\* The serving process is stopped and the program is started afresh.
Restart ==
    /\ pc = "serving"
    /\ last # NoDispatch
    /\ other' = last
    /\ pc' = "register_resource"
    /\ registry' = {}
    /\ env' \in Envs
    /\ stdout' = <<>>
    /\ stderr' = <<>>
    /\ exitCode' = -1
    /\ rejection' = ""
    /\ last' = NoDispatch

TwoRunsNext ==
    \/ RegisterResource
    \/ RegisterTool
    \/ RegisterPrompt
    \/ MainBanner
    \/ ConnectOk
    \/ ConnectFail
    \/ CatchLog
    \/ CatchExit
    \/ EnvChange
    \/ PairDispatch
    \/ Restart

TwoRunsSpec == Init /\ [][TwoRunsNext]_vars

\* The two runs' latest dispatches got the same request under the same prefix.
SameCall ==
    /\ other # NoDispatch
    /\ last # NoDispatch
    /\ other.request = last.request
    /\ PrefixIn(other.env) = PrefixIn(last.env)

\* C12: two dispatches, in two runs, of the same request under the same
\* GREETING_PREFIX give the same response, whatever was dispatched before in
\* either run and whatever ENVIRONMENT is in either; and a dispatch leaves the
\* environment as it found it.
C12_DispatchDependsOnRequestAndPrefixOnly ==
    /\ [](SameCall => other.response = last.response)
    /\ [][(last' # last /\ last' # NoDispatch) => env' = env]_vars

\* The same server-info read in two runs that differ in ENVIRONMENT.
C12_Witness ==
    /\ SameCall
    /\ last.handler = "server-info"
    /\ ("ENVIRONMENT" \in DOMAIN other.env) # ("ENVIRONMENT" \in DOMAIN last.env)
    /\ other.response = last.response

====
